---- MODULE Spec2Model ----
(***************************************************************************)
(* Model of the interview session state machine of the AI interview        *)
(* assistant: App (startInterview, askQuestion, handleAnswer,              *)
(* completeInterview, handleContinueInterview, handleRestartInterview),    *)
(* lib/openai.ts (generateInterviewQuestions, scoreAnswer,                 *)
(* getFallbackScore, generateFallbackSummary) and lib/storage.ts.          *)
(*                                                                         *)
(* Conventions                                                             *)
(*  - A text is abstracted to [raw, pad, kw]: raw = number of characters,  *)
(*    pad = how many of them are leading/trailing white space, kw = the    *)
(*    lower-cased text includes one of the five keywords of                *)
(*    getFallbackScore.                                                    *)
(*  - A JavaScript value that is falsy (0, undefined, null, missing key)   *)
(*    is the number 0 (Missing); the code tests such values only with !x   *)
(*    and x || 0 and cannot tell them apart either.                        *)
(*  - final_score is kept in tenths: FinalScoreTenths = 75 is 7.5.         *)
(*  - Every function of a React render closes over the state of that       *)
(*    render.  An asynchronous handler and the timers it starts therefore  *)
(*    carry the sessionState / currentCandidate / currentQuestionIndex     *)
(*    they were created with; the state setters act on the live state.     *)
(***************************************************************************)
EXTENDS Integers, Sequences, FiniteSets, TLC

VARIABLES
    candidates,             \* Persistence Service: rows of table candidates
    records,                \* Persistence Service: rows of questions_and_answers
    lsSession,              \* localStorage[STORAGE_KEYS.SESSION_STATE]
    lsCandidate,            \* localStorage[STORAGE_KEYS.CURRENT_CANDIDATE]
    currentCandidate,       \* App state
    sessionState,           \* App state
    messages,               \* App state
    currentQuestionIndex,   \* App state
    isWaitingForAnswer,     \* App state
    isProcessing,           \* App state
    showWelcomeBack,        \* App state
    start,                  \* the startInterview call in flight
    lateStart,              \* a startInterview call that outlasted the 25 s race
    ans,                    \* the handleAnswer call in flight
    comp,                   \* the completeInterview call in flight
    timers,                 \* pending setTimeout callbacks with their closures
    now,                    \* Date.now(), as a logical clock
    budget,                 \* how many more Start / reload / Answer events are explored
    scoreCase,              \* one evaluation of generateInterviewQuestions + scoreAnswer
    aggCase,                \* one evaluation of the final-score aggregation
    chat                    \* ChatInterface and its Timer while one question is open

serverVars == <<candidates, records>>

storageVars == <<lsSession, lsCandidate>>

appVars == <<currentCandidate, sessionState, messages, currentQuestionIndex,
             isWaitingForAnswer, isProcessing, showWelcomeBack>>

startVars == <<start, lateStart>>

flightVars == <<start, lateStart, ans, comp, timers>>

pureVars == <<scoreCase, aggCase, chat>>

\* what an action of the state machine leaves alone besides its own variables
otherVars == <<now, scoreCase, aggCase, chat>>

vars == <<candidates, records, lsSession, lsCandidate, currentCandidate,
          sessionState, messages, currentQuestionIndex, isWaitingForAnswer,
          isProcessing, showWelcomeBack, start, lateStart, ans, comp, timers, now, budget,
          scoreCase, aggCase, chat>>

(***************************************************************************)
(* lib/openai.ts                                                           *)
(***************************************************************************)
Missing == 0

TotalQuestions == 6

MinScore == 1

MaxScore == 10

Difficulties == {"Easy", "Medium", "Hard"}

FallbackQuestions ==
    << [question |-> "fallback1", difficulty |-> "Easy",   timeLimit |-> 20],
       [question |-> "fallback2", difficulty |-> "Easy",   timeLimit |-> 20],
       [question |-> "fallback3", difficulty |-> "Medium", timeLimit |-> 60],
       [question |-> "fallback4", difficulty |-> "Medium", timeLimit |-> 60],
       [question |-> "fallback5", difficulty |-> "Hard",   timeLimit |-> 120],
       [question |-> "fallback6", difficulty |-> "Hard",   timeLimit |-> 120] >>

\* What the chat completion call of generateInterviewQuestions can come back
\* with: a thrown error, no content, content that JSON.parse rejects, or
\* content that parses to some array (value), which is returned unchecked.
generateInterviewQuestions(resp) ==
    IF resp.kind = "json" THEN resp.value ELSE FallbackQuestions

\* String.prototype.trim: drops the surrounding white space.
Trim(text) == [raw |-> text.raw - text.pad, pad |-> 0, kw |-> text.kw]

Length(text) == text.raw

Min(a, b) == IF a < b THEN a ELSE b

Max(a, b) == IF a > b THEN a ELSE b

\* getFallbackScore measuring the answer without trim()
getFallbackScore_RawLength(answer, difficulty) ==
    LET answerLength == Length(answer)
        hasKeywords  == answer.kw
        baseScore    ==
            IF answerLength = 0 THEN 1
            ELSE IF answerLength < 20 THEN 2
            ELSE IF answerLength < 50 THEN (IF hasKeywords THEN 4 ELSE 3)
            ELSE IF answerLength < 100 THEN (IF hasKeywords THEN 6 ELSE 4)
            ELSE (IF hasKeywords THEN 7 ELSE 5)
        adjusted     ==
            IF difficulty = "Easy" THEN Min(baseScore + 1, 10)
            ELSE IF difficulty = "Hard" THEN Max(baseScore - 1, 1)
            ELSE baseScore
    IN  [technical       |-> adjusted,
         clarity         |-> Max(adjusted - 1, 1),
         problem_solving |-> adjusted,
         overall         |-> adjusted]

\* getFallbackScore without the adjustment for Easy questions
getFallbackScore_NoEasyBonus(answer, difficulty) ==
    LET answerLength == Length(Trim(answer))
        hasKeywords  == answer.kw
        baseScore    ==
            IF answerLength = 0 THEN 1
            ELSE IF answerLength < 20 THEN 2
            ELSE IF answerLength < 50 THEN (IF hasKeywords THEN 4 ELSE 3)
            ELSE IF answerLength < 100 THEN (IF hasKeywords THEN 6 ELSE 4)
            ELSE (IF hasKeywords THEN 7 ELSE 5)
        adjusted     ==
            IF difficulty = "Hard" THEN Max(baseScore - 1, 1)
            ELSE baseScore
    IN  [technical       |-> adjusted,
         clarity         |-> Max(adjusted - 1, 1),
         problem_solving |-> adjusted,
         overall         |-> adjusted]

getFallbackScore(answer, difficulty) ==
    LET answerLength == Length(Trim(answer))
        hasKeywords  == answer.kw
        baseScore    ==
            IF answerLength = 0 THEN 1
            ELSE IF answerLength < 20 THEN 2
            ELSE IF answerLength < 50 THEN (IF hasKeywords THEN 4 ELSE 3)
            ELSE IF answerLength < 100 THEN (IF hasKeywords THEN 6 ELSE 4)
            ELSE (IF hasKeywords THEN 7 ELSE 5)
        adjusted     ==
            IF difficulty = "Easy" THEN Min(baseScore + 1, 10)
            ELSE IF difficulty = "Hard" THEN Max(baseScore - 1, 1)
            ELSE baseScore
    IN  [technical       |-> adjusted,
         clarity         |-> Max(adjusted - 1, 1),
         problem_solving |-> adjusted,
         overall         |-> adjusted]

\* scoreAnswer handing back an all-zero score, instead of the fallback score,
\* when the call fails
scoreAnswer_ZeroOnFailure(question, answer, difficulty, resp) ==
    IF resp.kind # "json"
    THEN [technical |-> 0, clarity |-> 0, problem_solving |-> 0, overall |-> 0]
    ELSE IF \/ resp.value.technical = Missing
            \/ resp.value.clarity = Missing
            \/ resp.value.problem_solving = Missing
            \/ resp.value.overall = Missing
         THEN [technical |-> 0, clarity |-> 0, problem_solving |-> 0, overall |-> 0]
         ELSE resp.value

\* resp is what the scoring call comes back with: "nokey" (no API key, line
\* 63), "error" (the request throws), "empty" (no content), "unparsable"
\* (JSON.parse throws) or "json" with the parsed object in value.
scoreAnswer(question, answer, difficulty, resp) ==
    IF resp.kind # "json" THEN getFallbackScore(answer, difficulty)
    ELSE IF \/ resp.value.technical = Missing
            \/ resp.value.clarity = Missing
            \/ resp.value.problem_solving = Missing
            \/ resp.value.overall = Missing
         THEN getFallbackScore(answer, difficulty)
         ELSE resp.value

(***************************************************************************)
(* completeInterview, aggregation (App lines 269-271)                      *)
(***************************************************************************)
RECURSIVE SumOverall(_, _)
\* scores.reduce((sum, score) => sum + score, 0) over
\* Object.values(answers).map(a => a.score?.overall || 0)
SumOverall(answers, keys) ==
    IF keys = {} THEN 0
    ELSE LET k == CHOOSE x \in keys : TRUE
         IN  answers[k].score.overall + SumOverall(answers, keys \ {k})

\* Math.floor in the place of Math.round
MathRound_Floor(num, den) == num \div den

\* Math.round(x) for x = num / den, den > 0: floor(x + 1/2)
MathRound(num, den) == (2 * num + den) \div (2 * den)

\* finalScore * 10, i.e. Math.round((sum / scores.length) * 10)
FinalScoreTenths(answers) ==
    LET n == Cardinality(DOMAIN answers)
    IN  IF n = 0 THEN 0
        ELSE MathRound(10 * SumOverall(answers, DOMAIN answers), n)

(***************************************************************************)
(* Inputs of the function-level specifications                             *)
(***************************************************************************)
\* texts: empty, white space only, each length bucket with its boundaries
TextLengths == {0, 1, 4, 18, 19, 20, 49, 50, 99, 100, 130}

Pads == {0, 2}

\* the shortest keyword, 'node', has 4 characters
Texts ==
    { [raw |-> l + p, pad |-> p, kw |-> FALSE] : l \in TextLengths, p \in Pads }
    \cup { [raw |-> l + p, pad |-> p, kw |-> TRUE] :
              l \in {x \in TextLengths : x >= 4}, p \in Pads }

ScoreFieldValues == {-3, Missing, 1, 8, 10, 12}

ScoreObjects ==
    [technical : {Missing, 8}, clarity : {Missing, 7},
     problem_solving : {Missing, 9}, overall : ScoreFieldValues]

NoValue == [technical |-> Missing, clarity |-> Missing,
            problem_solving |-> Missing, overall |-> Missing]

ScoreResponses ==
    { [kind |-> k, value |-> NoValue] : k \in {"nokey", "error", "empty", "unparsable"} }
    \cup { [kind |-> "json", value |-> v] : v \in ScoreObjects }

AIQuestions ==
    << [question |-> "ai1", difficulty |-> "Easy",   timeLimit |-> 20],
       [question |-> "ai2", difficulty |-> "Easy",   timeLimit |-> 20],
       [question |-> "ai3", difficulty |-> "Medium", timeLimit |-> 60],
       [question |-> "ai4", difficulty |-> "Medium", timeLimit |-> 60],
       [question |-> "ai5", difficulty |-> "Hard",   timeLimit |-> 120],
       [question |-> "ai6", difficulty |-> "Hard",   timeLimit |-> 120] >>

ShortQuestions ==
    << [question |-> "short1", difficulty |-> "Hard", timeLimit |-> 30],
       [question |-> "short2", difficulty |-> "Easy", timeLimit |-> 20] >>

QuestionResponses ==
    { [kind |-> k, value |-> << >>] : k \in {"error", "empty", "unparsable"} }
    \cup { [kind |-> "json", value |-> v] : v \in {AIQuestions, ShortQuestions, << >>} }

(***************************************************************************)
(* Values of the session state machine                                     *)
(***************************************************************************)
MaxStarts == 2

MaxReloads == 1

MaxAnswers == 3

MaxFaults == 1

MaxAIScores == 1

MaxCollisions == 1

MaxTimeouts == 1

\* The runs explored: one uninterrupted interview of up to TotalQuestions
\* answers; MaxStarts interviews with MaxReloads page reloads and up to
\* MaxAnswers answers in all; and one interview of up to TotalQuestions
\* answers with MaxReloads page reloads in which every Persistence Service
\* call succeeds and every scoring call falls back.  faults counts failing
\* Persistence Service calls, aiScores the scoring calls that come back
\* with a JSON object, collisions the answers whose user message and
\* 'evaluating' message are created in the same millisecond, timeouts the
\* Start calls that outlast the 25 s race of the onboarding flow.
Budgets ==
    { [starts |-> 1, reloads |-> 0, answers |-> TotalQuestions,
       faults |-> MaxFaults, aiScores |-> MaxAIScores,
       collisions |-> 0, timeouts |-> 0],
      [starts |-> MaxStarts, reloads |-> MaxReloads, answers |-> MaxAnswers,
       faults |-> MaxFaults, aiScores |-> MaxAIScores,
       collisions |-> MaxCollisions, timeouts |-> 0],
      [starts |-> 1, reloads |-> MaxReloads, answers |-> TotalQuestions,
       faults |-> 0, aiScores |-> 0,
       collisions |-> 0, timeouts |-> 0] }

\* nothing more is explored
NoBudget == [starts |-> 0, reloads |-> 0, answers |-> 0, faults |-> 0, aiScores |-> 0,
             collisions |-> 0, timeouts |-> 0]

\* a Persistence Service call that fails uses up one fault of the budget
Fault(ok, b) == IF ok THEN b ELSE [b EXCEPT !.faults = @ - 1]

MayFail(ok) == ok \/ budget.faults > 0

NoCandidate == [id |-> 0, email |-> "", name |-> "", phone |-> "", status |-> "",
                final_score |-> 0, final_summary |-> ""]

NoSession == [candidateId |-> 0, currentQuestion |-> 0, questions |-> << >>,
              startTime |-> 0, isCompleted |-> FALSE, answers |-> << >>]

EmptyText == [raw |-> 0, pad |-> 0, kw |-> FALSE]

\* 'No answer provided' (ChatInterface line 73): 18 characters, no keyword
Placeholder == [raw |-> 18, pad |-> 0, kw |-> FALSE]

Idle == [stage |-> "idle"]

\* what the candidate can have in the input box when an answer is delivered
InputValues == {EmptyText, [raw |-> 3, pad |-> 3, kw |-> FALSE],
                [raw |-> 62, pad |-> 2, kw |-> TRUE]}

\* what the onboarding form can hand to startInterview
CandidateInfos ==
    { [name |-> "Jane", email |-> "jane@x.com", phone |-> "555-0101"],
      [name |-> "J. Doe", email |-> "jane@x.com", phone |-> "555-0102"],
      [name |-> "Bob", email |-> "bob@x.com", phone |-> ""] }

\* scoring responses explored by the state machine
SessionScoreResponses ==
    { [kind |-> k, value |-> NoValue] : k \in {"nokey", "error", "empty", "unparsable"} }
    \cup { [kind |-> "json",
            value |-> [technical |-> 8, clarity |-> 7, problem_solving |-> 9,
                       overall |-> o]] : o \in {Missing, 12} }

\* question-generation responses explored by the state machine
SessionQuestionResponses ==
    { [kind |-> k, value |-> << >>] : k \in {"error", "empty", "unparsable"} }
    \cup { [kind |-> "json", value |-> v] : v \in {ShortQuestions, << >>} }

SummaryResponses == {"nokey", "error", "empty", "text"}

\* id is Date.now().toString() (line 52).  Only the equality of ids is kept:
\* 0 stands for a millisecond in which no 'evaluating' message was created.
Message(type, kind, q, a, n) ==
    [type |-> type, kind |-> kind, q |-> q, a |-> a, n |-> n, id |-> 0]

\* prev.map(msg => msg.id === id ? { ...msg, content } : msg), lines 205-209
\* and 246-250: the content of every message with that id is replaced
RewriteMessages(msgs, id, kind, n) ==
    [i \in 1..Len(msgs) |->
        IF msgs[i].id = id
        THEN [msgs[i] EXCEPT !.kind = kind, !.q = "", !.a = EmptyText, !.n = n]
        ELSE msgs[i]]

\* addMessage: setMessages(prev => [...prev, message])
addMessage(msgs, type, kind, q, a, n) == Append(msgs, Message(type, kind, q, a, n))

Timer(kind, idx, questions, session, candidate) ==
    [kind |-> kind, idx |-> idx, questions |-> questions,
     session |-> session, candidate |-> candidate]

(***************************************************************************)
(* lib/storage.ts                                                          *)
(***************************************************************************)
\* the mount effect of App (lines 39-48) on a freshly loaded page
ResumableSession ==
    /\ lsSession # NoSession
    /\ lsCandidate # NoCandidate
    /\ ~lsSession.isCompleted

(***************************************************************************)
(* Initial state: first visit, page loaded, nothing stored                 *)
(***************************************************************************)
InitPure ==
    /\ scoreCase = [stage |-> "none"]
    /\ aggCase = [stage |-> "none"]
    /\ chat = [stage |-> "none"]

InitMachine ==
    /\ candidates = << >>
    /\ records = << >>
    /\ lsSession = NoSession
    /\ lsCandidate = NoCandidate
    /\ currentCandidate = NoCandidate
    /\ sessionState = NoSession
    /\ messages = << >>
    /\ currentQuestionIndex = 0
    /\ isWaitingForAnswer = FALSE
    /\ isProcessing = FALSE
    /\ showWelcomeBack = FALSE
    /\ start = Idle
    /\ lateStart = Idle
    /\ ans = Idle
    /\ comp = Idle
    /\ timers = {}
    /\ now = 1

Init ==
    /\ InitMachine
    /\ InitPure
    /\ budget \in Budgets

(***************************************************************************)
(* completeInterview, first part (lines 265-280): called with the closure  *)
(* of the render that created it                                           *)
(***************************************************************************)
completeInterview(session, candidate) ==
    IF session = NoSession \/ candidate = NoCandidate
    THEN comp' = comp
    ELSE comp' = [stage |-> "summary", session |-> session, candidate |-> candidate,
                  finalScore |-> FinalScoreTenths(session.answers),
                  summary |-> "", updateOk |-> FALSE]

(***************************************************************************)
(* askQuestion (lines 158-168)                                             *)
(***************************************************************************)
askQuestion(questionIndex, questions, session, candidate) ==
    IF questionIndex >= Len(questions)
    THEN /\ completeInterview(session, candidate)
         /\ UNCHANGED <<messages, currentQuestionIndex, isWaitingForAnswer>>
    ELSE /\ messages' = addMessage(messages, "bot", "question",
                                   questions[questionIndex + 1].question, EmptyText, 0)
         /\ currentQuestionIndex' = questionIndex
         /\ isWaitingForAnswer' = TRUE
         /\ comp' = comp

(***************************************************************************)
(* startInterview (lines 61-156)                                           *)
(***************************************************************************)
\* the onboarding form is rendered only without candidate and modal (line 365)
StartInterview(candidateInfo) ==
    /\ currentCandidate = NoCandidate
    /\ ~showWelcomeBack
    /\ start = Idle
    /\ budget.starts > 0
    /\ budget' = [budget EXCEPT !.starts = @ - 1]
    /\ isProcessing' = TRUE
    /\ start' = [stage |-> "lookup", info |-> candidateInfo,
                 existing |-> NoCandidate, candidate |-> NoCandidate,
                 lookupOk |-> TRUE, rowsBefore |-> candidates]
    /\ UNCHANGED <<serverVars, storageVars, currentCandidate, sessionState, messages,
                   currentQuestionIndex, isWaitingForAnswer, showWelcomeBack,
                   lateStart, ans, comp, timers, otherVars>>

\* a lookup that never finds a row, over a table without the unique email
RowsWithEmail_None(email) == {}

RowsWithEmail(email) == { i \in 1..Len(candidates) : candidates[i].email = email }

\* The steps of one startInterview call after its awaits.  call is the call
\* in flight and next what it becomes: start and start' for the call the
\* onboarding flow is waiting for, lateStart and lateStart' for one it has
\* given up waiting for.

\* select('*').eq('email', ...).single(): the row when exactly one matches;
\* the error of a failed lookup is not read (line 66).  lookupOk and
\* rowsBefore only record what happened to this call.
startLookup(call, next, ok) ==
    /\ call.stage = "lookup"
    /\ MayFail(ok)
    /\ budget' = Fault(ok, budget)
    /\ LET rows == RowsWithEmail(call.info.email)
           found == IF ok /\ Cardinality(rows) = 1
                    THEN candidates[CHOOSE i \in rows : TRUE]
                    ELSE NoCandidate
       IN  next = [call EXCEPT !.stage = "upsert", !.existing = found,
                               !.lookupOk = ok]
    /\ UNCHANGED <<serverVars, storageVars, appVars, ans, comp, timers, otherVars>>

\* the catch block of startInterview (lines 137-155)
startFailed(next) ==
    /\ isProcessing' = FALSE
    /\ currentCandidate' = NoCandidate
    /\ sessionState' = NoSession
    /\ messages' = << >>
    /\ next = Idle

\* update of the existing row (lines 76-88) or insert of a new one (91-103);
\* the email column is unique, so the insert of a second row with it fails
startUpsert(call, next, ok) ==
    /\ call.stage = "upsert"
    /\ MayFail(ok)
    /\ budget' = Fault(ok, budget)
    /\ IF call.existing # NoCandidate
       THEN IF ok
            THEN LET i == call.existing.id
                     row == [candidates[i] EXCEPT !.name = call.info.name,
                                                  !.phone = call.info.phone,
                                                  !.status = "in_progress"]
                 IN  /\ candidates' = [candidates EXCEPT ![i] = row]
                     /\ next = [call EXCEPT !.stage = "questions", !.candidate = row]
                     /\ UNCHANGED <<isProcessing, currentCandidate, sessionState, messages>>
            ELSE startFailed(next) /\ UNCHANGED candidates
       ELSE IF ok /\ RowsWithEmail(call.info.email) = {}
            THEN LET row == [id |-> Len(candidates) + 1, email |-> call.info.email,
                             name |-> call.info.name, phone |-> call.info.phone,
                             status |-> "in_progress",
                             final_score |-> 0, final_summary |-> ""]
                 IN  /\ candidates' = Append(candidates, row)
                     /\ next = [call EXCEPT !.stage = "questions", !.candidate = row]
                     /\ UNCHANGED <<isProcessing, currentCandidate, sessionState, messages>>
            ELSE startFailed(next) /\ UNCHANGED candidates
    /\ UNCHANGED <<records, storageVars, currentQuestionIndex, isWaitingForAnswer,
                   showWelcomeBack, ans, comp, timers, otherVars>>

\* lines 107-135: questions, new session state, local storage, greeting, timer
startQuestions(call, next, resp) ==
    /\ call.stage = "questions"
    /\ LET questions == generateInterviewQuestions(resp)
           candidate == call.candidate
           newSessionState == [candidateId |-> candidate.id, currentQuestion |-> 0,
                               questions |-> questions, startTime |-> now,
                               isCompleted |-> FALSE, answers |-> << >>]
       IN  /\ currentCandidate' = candidate
           /\ sessionState' = newSessionState
           /\ currentQuestionIndex' = 0
           /\ isWaitingForAnswer' = FALSE
           /\ lsCandidate' = candidate
           /\ lsSession' = newSessionState
           /\ messages' = addMessage(<< >>, "bot", "greeting", "", EmptyText, 0)
           /\ timers' = timers \cup {Timer("startAsk", 0, questions, NoSession, NoCandidate)}
    /\ next = Idle
    /\ now' = now + 1
    /\ UNCHANGED <<serverVars, isProcessing, showWelcomeBack, ans, comp, budget, pureVars>>

\* the call the onboarding flow is waiting for
StartLookup(ok) == startLookup(start, start', ok) /\ UNCHANGED lateStart

StartUpsert(ok) == startUpsert(start, start', ok) /\ UNCHANGED lateStart

StartQuestions(resp) == startQuestions(start, start', resp) /\ UNCHANGED lateStart

\* the timer of lines 132-135; askQuestion and completeInterview are those of
\* the render startInterview was created in, where sessionState is null
TimerStartAsk ==
    \E t \in timers :
        /\ t.kind = "startAsk"
        /\ timers' = timers \ {t}
        /\ askQuestion(0, t.questions, t.session, t.candidate)
        /\ isProcessing' = FALSE
        /\ UNCHANGED <<serverVars, storageVars, currentCandidate, sessionState,
                       showWelcomeBack, startVars, ans, budget, otherVars>>

(***************************************************************************)
(* handleAnswer (lines 170-263), in the steps its awaits cut it into       *)
(***************************************************************************)
\* lines 171-178, up to the await of scoreAnswer.  sessionState,
\* currentCandidate and currentQuestionIndex are captured here.  resp,
\* recordsBefore and insertOk only record what happened to this call.
\* sameMs: the two addMessage calls of lines 177-178 read the same Date.now()
handleAnswer(answer, sameMs) ==
    IF sessionState = NoSession \/ currentCandidate = NoCandidate
    THEN UNCHANGED <<isWaitingForAnswer, isProcessing, messages, ans>>
    ELSE LET evaluatingId == Len(messages) + 2
             userMessage == [Message("user", "answer", "", answer, 0)
                                EXCEPT !.id = IF sameMs THEN evaluatingId ELSE 0]
             evaluatingMessage == [Message("bot", "evaluating", "", EmptyText, 0)
                                      EXCEPT !.id = evaluatingId]
         IN  /\ isWaitingForAnswer' = FALSE
             /\ isProcessing' = TRUE
             /\ messages' = messages \o << userMessage, evaluatingMessage >>
             /\ ans' = [stage |-> "scoring", session |-> sessionState,
                        candidate |-> currentCandidate, idx |-> currentQuestionIndex,
                        answer |-> answer, resp |-> [kind |-> "", value |-> NoValue],
                        aiScore |-> NoValue, evaluatingId |-> evaluatingId,
                        recordsBefore |-> Len(records), insertOk |-> FALSE]

\* ChatInterface: the form and the Timer are rendered while
\* isWaitingForAnswer && !isProcessing (App line 445, ChatInterface 119, 181)
ChatAcceptsAnswer ==
    /\ isWaitingForAnswer
    /\ ~isProcessing
    /\ ans = Idle
    /\ budget.answers > 0

\* ChatInterface.handleSubmit (lines 59-67)
HandleSubmit(inputValue) ==
    /\ ChatAcceptsAnswer
    /\ Length(Trim(inputValue)) # 0
    /\ \E sameMs \in BOOLEAN :
          /\ sameMs => budget.collisions > 0
          /\ handleAnswer(Trim(inputValue), sameMs)
          /\ budget' = [budget EXCEPT !.answers = @ - 1,
                                      !.collisions = IF sameMs THEN @ - 1 ELSE @]
    /\ UNCHANGED <<serverVars, storageVars, currentCandidate, sessionState,
                   currentQuestionIndex, showWelcomeBack, startVars, comp, timers, otherVars>>

\* a handleTimeUp that hands over the trimmed input as it is
HandleTimeUp_NoPlaceholder(inputValue) ==
    /\ ChatAcceptsAnswer
    /\ \E sameMs \in BOOLEAN :
          /\ sameMs => budget.collisions > 0
          /\ handleAnswer(Trim(inputValue), sameMs)
          /\ budget' = [budget EXCEPT !.answers = @ - 1,
                                      !.collisions = IF sameMs THEN @ - 1 ELSE @]
    /\ UNCHANGED <<serverVars, storageVars, currentCandidate, sessionState,
                   currentQuestionIndex, showWelcomeBack, startVars, comp, timers, otherVars>>

\* ChatInterface.handleTimeUp (lines 69-76)
HandleTimeUp(inputValue) ==
    /\ ChatAcceptsAnswer
    /\ \E sameMs \in BOOLEAN :
          /\ sameMs => budget.collisions > 0
          /\ handleAnswer(IF Length(Trim(inputValue)) # 0 THEN Trim(inputValue)
                          ELSE Placeholder, sameMs)
          /\ budget' = [budget EXCEPT !.answers = @ - 1,
                                      !.collisions = IF sameMs THEN @ - 1 ELSE @]
    /\ UNCHANGED <<serverVars, storageVars, currentCandidate, sessionState,
                   currentQuestionIndex, showWelcomeBack, startVars, comp, timers, otherVars>>

\* line 181: sessionState.questions[currentQuestionIndex]
HasCurrentQuestion(a) == a.idx + 1 <= Len(a.session.questions)

\* lines 243-262: the catch block, reached when currentQuestion is undefined
AnswerFailed ==
    /\ messages' = RewriteMessages(messages, ans.evaluatingId, "evaluationError", 0)
    /\ timers' = timers \cup {Timer("ask", ans.idx + 1, ans.session.questions,
                                    ans.session, ans.candidate)}
    /\ isProcessing' = FALSE
    /\ ans' = Idle

\* line 186: scoreAnswer settles
AnswerScored(resp) ==
    /\ ans.stage = "scoring"
    /\ resp.kind = "json" => budget.aiScores > 0
    /\ budget' = IF resp.kind = "json" THEN [budget EXCEPT !.aiScores = @ - 1] ELSE budget
    /\ IF HasCurrentQuestion(ans)
       THEN LET currentQuestion == ans.session.questions[ans.idx + 1]
            IN  /\ ans' = [ans EXCEPT !.stage = "insert",
                                      !.resp = resp,
                                      !.aiScore = scoreAnswer(currentQuestion.question,
                                                              ans.answer,
                                                              currentQuestion.difficulty,
                                                              resp)]
                /\ UNCHANGED <<messages, timers, isProcessing>>
       ELSE AnswerFailed
    /\ UNCHANGED <<serverVars, storageVars, currentCandidate, sessionState,
                   currentQuestionIndex, isWaitingForAnswer, showWelcomeBack,
                   startVars, comp, otherVars>>

\* the row of lines 193-202
AnswerRecord(candidate, questionIndex, currentQuestion, answer, aiScore) ==
    [candidate_id |-> candidate.id,
     question_number |-> questionIndex + 1,
     question_text |-> currentQuestion.question,
     difficulty |-> currentQuestion.difficulty,
     time_limit |-> currentQuestion.timeLimit,
     answer |-> answer,
     ai_score |-> aiScore]

\* a handleAnswer that gives up when the insert fails
AnswerInsert_AbandonsOnFailure(ok) ==
    /\ ans.stage = "insert"
    /\ MayFail(ok)
    /\ budget' = Fault(ok, budget)
    /\ LET row == AnswerRecord(ans.candidate, ans.idx,
                               ans.session.questions[ans.idx + 1],
                               ans.answer, ans.aiScore)
       IN  records' = IF ok THEN Append(records, row) ELSE records
    /\ ans' = IF ok THEN [ans EXCEPT !.stage = "respond", !.insertOk = ok] ELSE Idle
    /\ UNCHANGED <<candidates, storageVars, appVars, startVars, comp, timers, otherVars>>

\* lines 191-202 at the Persistence Service: the row is inserted, or the
\* insert fails; its result is not read
AnswerInsert(ok) ==
    /\ ans.stage = "insert"
    /\ MayFail(ok)
    /\ budget' = Fault(ok, budget)
    /\ LET row == AnswerRecord(ans.candidate, ans.idx,
                               ans.session.questions[ans.idx + 1],
                               ans.answer, ans.aiScore)
       IN  records' = IF ok THEN Append(records, row) ELSE records
    /\ ans' = [ans EXCEPT !.stage = "respond", !.insertOk = ok]
    /\ UNCHANGED <<candidates, storageVars, appVars, startVars, comp, timers, otherVars>>

\* the update without the increment of currentQuestion
UpdatedSessionState_NoIncrement(session, questionIndex, answer, aiScore) ==
    [session EXCEPT
        !.currentQuestion = questionIndex,
        !.answers = [k \in (DOMAIN session.answers) \cup {questionIndex} |->
                        IF k = questionIndex
                        THEN [answer |-> answer, score |-> aiScore]
                        ELSE session.answers[k]]]

\* lines 212-223: the closure's sessionState with one more answer
UpdatedSessionState(session, questionIndex, answer, aiScore) ==
    [session EXCEPT
        !.currentQuestion = questionIndex + 1,
        !.answers = [k \in (DOMAIN session.answers) \cup {questionIndex} |->
                        IF k = questionIndex
                        THEN [answer |-> answer, score |-> aiScore]
                        ELSE session.answers[k]]]

\* lines 204-241 and the finally block: after the insert has settled
AnswerContinue ==
    /\ ans.stage = "respond"
    /\ LET idx == ans.idx
           updatedSessionState ==
               UpdatedSessionState(ans.session, idx, ans.answer, ans.aiScore)
       IN  /\ messages' = RewriteMessages(messages, ans.evaluatingId, "scored",
                                          ans.aiScore.overall)
           /\ sessionState' = updatedSessionState
           /\ lsSession' = updatedSessionState
           /\ timers' = timers \cup
                 { IF idx + 1 < Len(ans.session.questions)
                   THEN Timer("next", idx + 1, ans.session.questions,
                              ans.session, ans.candidate)
                   ELSE Timer("complete", idx + 1, ans.session.questions,
                              ans.session, ans.candidate) }
    /\ isProcessing' = FALSE
    /\ ans' = Idle
    /\ UNCHANGED <<serverVars, lsCandidate, currentCandidate, currentQuestionIndex,
                   isWaitingForAnswer, showWelcomeBack, startVars, comp, budget, otherVars>>

\* lines 231-236: the 3000 ms timer, which starts the 1500 ms one
TimerNext ==
    \E t \in timers :
        /\ t.kind = "next"
        /\ messages' = addMessage(messages, "bot", "next", "", EmptyText, 0)
        /\ timers' = (timers \ {t}) \cup {[t EXCEPT !.kind = "ask"]}
        /\ UNCHANGED <<serverVars, storageVars, currentCandidate, sessionState,
                       currentQuestionIndex, isWaitingForAnswer, isProcessing,
                       showWelcomeBack, startVars, ans, comp, budget, otherVars>>

\* lines 233-235, 253-259 and 347-349: askQuestion from a timer
TimerAsk ==
    \E t \in timers :
        /\ t.kind = "ask"
        /\ timers' = timers \ {t}
        /\ askQuestion(t.idx, t.questions, t.session, t.candidate)
        /\ UNCHANGED <<serverVars, storageVars, currentCandidate, sessionState,
                       isProcessing, showWelcomeBack, startVars, ans, budget, otherVars>>

\* lines 238-240: completeInterview of the render handleAnswer was created in
TimerComplete ==
    \E t \in timers :
        /\ t.kind = "complete"
        /\ timers' = timers \ {t}
        /\ completeInterview(t.session, t.candidate)
        /\ UNCHANGED <<serverVars, storageVars, appVars, startVars, ans, budget, otherVars>>

(***************************************************************************)
(* generateFinalSummary / generateFallbackSummary (openai.ts 166-207)      *)
(***************************************************************************)
\* a summary that calls a mean of exactly 7 moderate
generateFallbackSummary_StrictStrong(answers) ==
    LET n == Cardinality(DOMAIN answers)
        sum == SumOverall(answers, DOMAIN answers)
    IN  IF n > 0 /\ sum > 7 * n THEN "strong"
        ELSE IF n > 0 /\ sum >= 5 * n THEN "moderate"
        ELSE "weak"

\* avgScore = sum / length is NaN for an empty transcript: both comparisons fail
generateFallbackSummary(answers) ==
    LET n == Cardinality(DOMAIN answers)
        sum == SumOverall(answers, DOMAIN answers)
    IN  IF n > 0 /\ sum >= 7 * n THEN "strong"
        ELSE IF n > 0 /\ sum >= 5 * n THEN "moderate"
        ELSE "weak"

generateFinalSummary(answers, resp) ==
    IF resp = "text" THEN "ai" ELSE generateFallbackSummary(answers)

(***************************************************************************)
(* completeInterview, after its awaits (lines 280-304)                     *)
(***************************************************************************)
\* line 280: generateFinalSummary settles
CompleteSummary(resp) ==
    /\ comp.stage = "summary"
    /\ comp' = [comp EXCEPT !.stage = "update",
                            !.summary = generateFinalSummary(comp.session.answers, resp)]
    /\ UNCHANGED <<serverVars, storageVars, appVars, startVars, ans, timers, budget, otherVars>>

\* lines 283-290 at the Persistence Service; the result is not read
CompleteUpdate(ok) ==
    /\ comp.stage = "update"
    /\ MayFail(ok)
    /\ budget' = Fault(ok, budget)
    /\ candidates' =
          IF ok
          THEN [i \in 1..Len(candidates) |->
                   IF candidates[i].id = comp.candidate.id
                   THEN [candidates[i] EXCEPT !.status = "completed",
                                              !.final_score = comp.finalScore,
                                              !.final_summary = comp.summary]
                   ELSE candidates[i]]
          ELSE candidates
    /\ comp' = [comp EXCEPT !.stage = "respond", !.updateOk = ok]
    /\ UNCHANGED <<records, storageVars, appVars, startVars, ans, timers, otherVars>>

\* lines 292-304
CompleteContinue ==
    /\ comp.stage = "respond"
    /\ LET completedSession == [comp.session EXCEPT !.isCompleted = TRUE]
       IN  /\ sessionState' = completedSession
           /\ lsSession' = completedSession
    /\ messages' = addMessage(messages, "bot", "completed", comp.summary, EmptyText,
                              comp.finalScore)
    /\ timers' = timers \cup {Timer("clear", 0, << >>, NoSession, NoCandidate)}
    /\ comp' = Idle
    /\ UNCHANGED <<serverVars, lsCandidate, currentCandidate, currentQuestionIndex,
                   isWaitingForAnswer, isProcessing, showWelcomeBack, startVars, ans,
                   budget, otherVars>>

\* lines 301-304 with storage.ts clearSessionState (43-51)
\* a clearing that removes the session-state key only
TimerClear_SessionKeyOnly ==
    \E t \in timers :
        /\ t.kind = "clear"
        /\ timers' = timers \ {t}
        /\ lsSession' = NoSession
        /\ lsCandidate' = lsCandidate
        /\ UNCHANGED <<serverVars, appVars, startVars, ans, comp, budget, otherVars>>

TimerClear ==
    \E t \in timers :
        /\ t.kind = "clear"
        /\ timers' = timers \ {t}
        /\ lsSession' = NoSession
        /\ lsCandidate' = NoCandidate
        /\ UNCHANGED <<serverVars, appVars, startVars, ans, comp, budget, otherVars>>

(***************************************************************************)
(* Page closed and opened again: memory, handlers in flight and timers are *)
(* gone, local storage and the server stay; then the mount effect (39-48)  *)
(***************************************************************************)
Reload ==
    /\ budget.reloads > 0
    /\ budget' = [budget EXCEPT !.reloads = @ - 1]
    /\ messages' = << >>
    /\ currentQuestionIndex' = 0
    /\ isWaitingForAnswer' = FALSE
    /\ isProcessing' = FALSE
    /\ start' = Idle
    /\ lateStart' = Idle
    /\ ans' = Idle
    /\ comp' = Idle
    /\ timers' = {}
    /\ IF ResumableSession
       THEN /\ showWelcomeBack' = TRUE
            /\ currentCandidate' = lsCandidate
            /\ sessionState' = lsSession
       ELSE /\ showWelcomeBack' = FALSE
            /\ currentCandidate' = NoCandidate
            /\ sessionState' = NoSession
    /\ UNCHANGED <<serverVars, storageVars, otherVars>>

(***************************************************************************)
(* handleContinueInterview (lines 312-352)                                 *)
(***************************************************************************)
RECURSIVE RestoredPairs(_, _)
\* a replay that walks the stored answers from the last key to the first
RestoredPairs_Descending(session, keys) ==
    LET key(j) == CHOOSE x \in keys : Cardinality({y \in keys : y > x}) = j - 1
    IN  [p \in 1..(2 * Cardinality(keys)) |->
            IF p % 2 = 1
            THEN Message("bot", "question",
                         session.questions[key((p + 1) \div 2) + 1].question,
                         EmptyText, key((p + 1) \div 2))
            ELSE Message("user", "answer", "",
                         session.answers[key(p \div 2)].answer, key(p \div 2))]

\* Object.entries(answers).forEach: integer keys in ascending order
RestoredPairs(session, keys) ==
    IF keys = {} THEN << >>
    ELSE LET k == CHOOSE x \in keys : \A y \in keys : x <= y
         IN  << Message("bot", "question", session.questions[k + 1].question, EmptyText, k),
                Message("user", "answer", "", session.answers[k].answer, k) >>
             \o RestoredPairs(session, keys \ {k})

HandleContinueInterview ==
    /\ showWelcomeBack
    /\ IF sessionState # NoSession /\ currentCandidate # NoCandidate
       THEN /\ showWelcomeBack' = FALSE
            /\ messages' = << Message("bot", "welcomeBack", "", EmptyText, 0) >>
                           \o RestoredPairs(sessionState, DOMAIN sessionState.answers)
            /\ currentQuestionIndex' = sessionState.currentQuestion
            /\ timers' = IF sessionState.currentQuestion < Len(sessionState.questions)
                         THEN timers \cup {Timer("ask", sessionState.currentQuestion,
                                                 sessionState.questions,
                                                 sessionState, currentCandidate)}
                         ELSE timers
       ELSE UNCHANGED <<showWelcomeBack, messages, currentQuestionIndex, timers>>
    /\ UNCHANGED <<serverVars, storageVars, currentCandidate, sessionState,
                   isWaitingForAnswer, isProcessing, startVars, ans, comp, budget, otherVars>>

(***************************************************************************)
(* handleRestartInterview (lines 354-362)                                  *)
(***************************************************************************)
\* a restart whose clearSessionState leaves the current-candidate key behind
HandleRestartInterview_KeepsCandidateKey ==
    /\ showWelcomeBack
    /\ lsSession' = NoSession
    /\ lsCandidate' = lsCandidate
    /\ showWelcomeBack' = FALSE
    /\ currentCandidate' = NoCandidate
    /\ sessionState' = NoSession
    /\ messages' = << >>
    /\ currentQuestionIndex' = 0
    /\ isWaitingForAnswer' = FALSE
    /\ UNCHANGED <<serverVars, isProcessing, startVars, ans, comp, timers, budget, otherVars>>

HandleRestartInterview ==
    /\ showWelcomeBack
    /\ lsSession' = NoSession
    /\ lsCandidate' = NoCandidate
    /\ showWelcomeBack' = FALSE
    /\ currentCandidate' = NoCandidate
    /\ sessionState' = NoSession
    /\ messages' = << >>
    /\ currentQuestionIndex' = 0
    /\ isWaitingForAnswer' = FALSE
    /\ UNCHANGED <<serverVars, isProcessing, startVars, ans, comp, timers, budget, otherVars>>

(***************************************************************************)
(* The session state machine                                               *)
(***************************************************************************)
Next ==
    \/ \E info \in CandidateInfos : StartInterview(info)
    \/ \E ok \in BOOLEAN : StartLookup(ok)
    \/ \E ok \in BOOLEAN : StartUpsert(ok)
    \/ \E resp \in SessionQuestionResponses : StartQuestions(resp)
    \/ TimerStartAsk
    \/ \E inputValue \in InputValues : HandleSubmit(inputValue)
    \/ \E inputValue \in InputValues : HandleTimeUp(inputValue)
    \/ \E resp \in SessionScoreResponses : AnswerScored(resp)
    \/ \E ok \in BOOLEAN : AnswerInsert(ok)
    \/ AnswerContinue
    \/ TimerNext
    \/ TimerAsk
    \/ TimerComplete
    \/ \E resp \in SummaryResponses : CompleteSummary(resp)
    \/ \E ok \in BOOLEAN : CompleteUpdate(ok)
    \/ CompleteContinue
    \/ TimerClear
    \/ Reload
    \/ HandleContinueInterview
    \/ HandleRestartInterview

Spec == Init /\ [][Next]_vars

(***************************************************************************)
(* A Start that outlasts the race of OnboardingFlow.handleComplete (25 s,  *)
(* lines 154-159 of the component): the flow shows the timeout alert and   *)
(* enables its button again, and startInterview, which the race does not   *)
(* cancel, goes on with its awaits.                                        *)
(***************************************************************************)
StartTimeout ==
    /\ start # Idle
    /\ lateStart = Idle
    /\ budget.timeouts > 0
    /\ budget' = [budget EXCEPT !.timeouts = @ - 1]
    /\ lateStart' = start
    /\ start' = Idle
    /\ UNCHANGED <<serverVars, storageVars, appVars, ans, comp, timers, otherVars>>

LateStartLookup(ok) == startLookup(lateStart, lateStart', ok) /\ UNCHANGED start

LateStartUpsert(ok) == startUpsert(lateStart, lateStart', ok) /\ UNCHANGED start

LateStartQuestions(resp) == startQuestions(lateStart, lateStart', resp) /\ UNCHANGED start

NextTimeout ==
    \/ Next
    \/ StartTimeout
    \/ \E ok \in BOOLEAN : LateStartLookup(ok)
    \/ \E ok \in BOOLEAN : LateStartUpsert(ok)
    \/ \E resp \in SessionQuestionResponses : LateStartQuestions(resp)

\* the runs of Budgets, and runs of MaxStarts interviews, long enough to
\* complete the two-question sequence, of which MaxTimeouts Start calls
\* outlast the race: one with failing Persistence Service calls, one with
\* page reloads
TimeoutBudgets ==
    Budgets \cup
    { [starts |-> MaxStarts, reloads |-> 0, answers |-> Len(ShortQuestions),
       faults |-> MaxFaults, aiScores |-> 0,
       collisions |-> 0, timeouts |-> MaxTimeouts],
      [starts |-> MaxStarts, reloads |-> MaxReloads, answers |-> Len(ShortQuestions),
       faults |-> 0, aiScores |-> 0,
       collisions |-> 0, timeouts |-> MaxTimeouts] }

InitTimeout ==
    /\ InitMachine
    /\ InitPure
    /\ budget \in TimeoutBudgets

SpecTimeout == InitTimeout /\ [][NextTimeout]_vars

(***************************************************************************)
(* Scheduling.  A timer that was set fires, and a Persistence Service call *)
(* settles (with a result or an error), as long as the page stays open.    *)
(* What the candidate does (start, submit, continue, restart, close the    *)
(* page) and the expiry of the answer timer are not forced to happen.      *)
(***************************************************************************)
TimerFairness ==
    /\ WF_vars(TimerStartAsk)
    /\ WF_vars(TimerNext)
    /\ WF_vars(TimerAsk)
    /\ WF_vars(TimerComplete)
    /\ WF_vars(TimerClear)

PersistenceFairness ==
    /\ WF_vars(\E ok \in BOOLEAN : StartLookup(ok))
    /\ WF_vars(\E ok \in BOOLEAN : StartUpsert(ok))
    /\ WF_vars(\E ok \in BOOLEAN : AnswerInsert(ok))
    /\ WF_vars(\E ok \in BOOLEAN : CompleteUpdate(ok))
    /\ WF_vars(AnswerContinue)
    /\ WF_vars(CompleteContinue)

\* every request to the AI Evaluation Service comes back
AIFairness ==
    /\ WF_vars(\E resp \in SessionQuestionResponses : StartQuestions(resp))
    /\ WF_vars(\E resp \in SessionScoreResponses : AnswerScored(resp))
    /\ WF_vars(\E resp \in SummaryResponses : CompleteSummary(resp))

\* The runs explored under fairness: one interview of up to TotalQuestions
\* answers with failing Persistence Service calls, one with scoring calls
\* that come back with a JSON object, and one with page reloads.
LiveBudgets ==
    { [starts |-> 1, reloads |-> 0, answers |-> TotalQuestions,
       faults |-> MaxFaults, aiScores |-> 0,
       collisions |-> 0, timeouts |-> 0],
      [starts |-> 1, reloads |-> 0, answers |-> TotalQuestions,
       faults |-> 0, aiScores |-> MaxAIScores,
       collisions |-> 0, timeouts |-> 0],
      [starts |-> 1, reloads |-> MaxReloads, answers |-> TotalQuestions,
       faults |-> 0, aiScores |-> 0,
       collisions |-> 0, timeouts |-> 0] }

InitLive ==
    /\ InitMachine
    /\ InitPure
    /\ budget \in LiveBudgets

\* the state machine when every call settles
SpecLive ==
    InitLive /\ [][Next]_vars /\ TimerFairness /\ PersistenceFairness /\ AIFairness

\* the state machine when a request to the AI Evaluation Service may hang;
\* no call of openai.ts carries a timeout or an abort signal
SpecAIHang == InitLive /\ [][Next]_vars /\ TimerFairness /\ PersistenceFairness

(***************************************************************************)
(* Function-level specification of question generation and scoring:        *)
(* Start obtains a question sequence, one question of it is answered with  *)
(* a text from Texts, and handleAnswer scores it and builds the record.    *)
(***************************************************************************)
InitScore ==
    /\ InitMachine
    /\ budget = NoBudget
    /\ scoreCase = [stage |-> "start"]
    /\ aggCase = [stage |-> "none"]
    /\ chat = [stage |-> "none"]

machineVars == <<candidates, records, lsSession, lsCandidate, currentCandidate,
                 sessionState, messages, currentQuestionIndex, isWaitingForAnswer,
                 isProcessing, showWelcomeBack, start, lateStart, ans, comp, timers,
                 now, budget>>

ScoreGenerate(resp) ==
    /\ scoreCase.stage = "start"
    /\ scoreCase' = [stage |-> "asked", genResp |-> resp,
                     questions |-> generateInterviewQuestions(resp)]
    /\ UNCHANGED <<machineVars, aggCase, chat>>

ScoreOne(questionIndex, answer, resp) ==
    /\ scoreCase.stage = "asked"
    /\ questionIndex < Len(scoreCase.questions)
    /\ LET currentQuestion == scoreCase.questions[questionIndex + 1]
           aiScore == scoreAnswer(currentQuestion.question, answer,
                                  currentQuestion.difficulty, resp)
       IN  scoreCase' = [stage |-> "scored", genResp |-> scoreCase.genResp,
                         questions |-> scoreCase.questions, idx |-> questionIndex,
                         answer |-> answer, resp |-> resp, aiScore |-> aiScore,
                         record |-> AnswerRecord([id |-> 1], questionIndex,
                                                 currentQuestion, answer, aiScore)]
    /\ UNCHANGED <<machineVars, aggCase, chat>>

NextScore ==
    \/ \E resp \in QuestionResponses : ScoreGenerate(resp)
    \/ /\ scoreCase.stage = "asked"
       /\ \E i \in 0..(TotalQuestions - 1), answer \in Texts, resp \in ScoreResponses :
             ScoreOne(i, answer, resp)

SpecScore == InitScore /\ [][NextScore]_vars

(***************************************************************************)
(* Function-level specification of the aggregation of completeInterview:   *)
(* an answers map is filled with 0..TotalQuestions integer overalls of     *)
(* MinScore..MaxScore and then aggregated.                                 *)
(***************************************************************************)
InitAgg ==
    /\ InitMachine
    /\ budget = NoBudget
    /\ scoreCase = [stage |-> "none"]
    /\ chat = [stage |-> "none"]
    /\ aggCase = [stage |-> "filling", answers |-> << >>, overalls |-> << >>,
                  total |-> 0, finalScore |-> 0, summary |-> ""]

AggAnswer(overall) ==
    /\ aggCase.stage = "filling"
    /\ Len(aggCase.overalls) < TotalQuestions
    /\ LET questionIndex == Len(aggCase.overalls)
           aiScore == [technical |-> overall, clarity |-> overall,
                       problem_solving |-> overall, overall |-> overall]
           session == UpdatedSessionState([NoSession EXCEPT !.answers = aggCase.answers],
                                          questionIndex, Placeholder, aiScore)
       IN  aggCase' = [aggCase EXCEPT !.answers = session.answers,
                                      !.overalls = Append(@, overall),
                                      !.total = @ + overall]
    /\ UNCHANGED <<machineVars, scoreCase, chat>>

AggComplete ==
    /\ aggCase.stage = "filling"
    /\ aggCase' = [aggCase EXCEPT !.stage = "done",
                                  !.finalScore = FinalScoreTenths(aggCase.answers),
                                  !.summary = generateFallbackSummary(aggCase.answers)]
    /\ UNCHANGED <<machineVars, scoreCase, chat>>

NextAgg ==
    \/ \E overall \in MinScore..MaxScore : AggAnswer(overall)
    \/ AggComplete

SpecAgg == InitAgg /\ [][NextAgg]_vars

(***************************************************************************)
(* ChatInterface (components/ChatInterface.tsx) and its Timer              *)
(* (components/ui/Timer) while one question is open.                       *)
(*  - Time advances in steps of 1 / SubSecond seconds; the callback of     *)
(*    setInterval(..., 1000) is due SubSecond steps after the interval was *)
(*    created and runs before more time passes.                            *)
(*  - The handlers that can run are those of the committed render; they    *)
(*    read the inputValue and startTime of that render.  A click or a key  *)
(*    is followed by its render at once.  State set from the interval      *)
(*    callback is rendered by a later task (ChatRender): until then the    *)
(*    handlers of the previous render can still be called.                 *)
(*  - Every render of ChatInterface creates a new handleTimeUp, so the     *)
(*    effect of Timer (deps [isActive, onTimeUp, onTick]) clears the       *)
(*    interval and creates a new one.                                      *)
(***************************************************************************)
SubSecond == 2

MaxTyped == 2

\* how many steps beyond the time limit the clock is followed
MaxOvertime == 4

\* currentQuestion={sessionState?.questions[currentQuestionIndex]}
ChatQuestion == FallbackQuestions[1]

\* Date.now() when the question is asked
ChatEpoch == 1

Keys == {"letter", "space"}

\* e.target.value after one more key; at MaxTyped characters the key
\* replaces the last character
Typed(text, key) ==
    IF text.raw < MaxTyped
    THEN [raw |-> text.raw + 1,
          pad |-> IF key = "space" THEN text.pad + 1 ELSE text.pad,
          kw |-> FALSE]
    ELSE text

\* what a render of ChatInterface closes over
Closure(c) ==
    [mounted |-> c.activeTab = "interviewee", waiting |-> c.waiting,
     inputValue |-> c.inputValue, startTime |-> c.startTime]

RenderPending(c) == c.committed # Closure(c)

\* a render of ChatInterface with the current state, and the effect of Timer:
\* the Timer is there while currentQuestion && isWaitingForAnswer (line 119),
\* active while isWaitingForAnswer && !!startTime (line 131)
ChatRendered(c) ==
    LET k == Closure(c)
    IN  [c EXCEPT !.committed = k,
                  !.intervalOn = k.mounted /\ k.waiting /\ k.startTime # 0,
                  !.phase = 0]

\* onAnswer = App.handleAnswer, lines 170-175: sessionState and
\* currentCandidate are set; isWaitingForAnswer is not read.  open records
\* whether the system was waiting when the call was made.
onAnswer(c, answer, timeTaken, by) ==
    [c EXCEPT !.waiting = FALSE,
              !.delivered = Append(@, [answer |-> answer, timeTaken |-> timeTaken,
                                       by |-> by, open |-> c.waiting,
                                       typed |-> c.committed.inputValue,
                                       at |-> c.clock])]

\* ChatInterface.handleTimeUp (lines 69-76)
handleTimeUp(c) ==
    IF c.committed.startTime = 0 THEN c
    ELSE LET text == Trim(c.committed.inputValue)
             d == onAnswer(c, IF Length(text) # 0 THEN text ELSE Placeholder,
                           ChatQuestion.timeLimit, "timeUp")
         IN  [d EXCEPT !.inputValue = EmptyText, !.startTime = 0]

\* ChatInterface.handleSubmit (lines 59-67)
handleSubmit(c) ==
    IF Length(Trim(c.committed.inputValue)) = 0 \/ c.committed.startTime = 0 THEN c
    ELSE LET timeTaken == (c.clock - c.committed.startTime) \div SubSecond
             d == onAnswer(c, Trim(c.committed.inputValue), timeTaken, "submit")
         IN  [d EXCEPT !.inputValue = EmptyText, !.startTime = 0]

\* the question has just been asked and rendered on the Interviewee tab:
\* the effect of lines 50-57 has set startTime, the Timer shows time_limit
InitChat ==
    /\ InitMachine
    /\ budget = NoBudget
    /\ scoreCase = [stage |-> "none"]
    /\ aggCase = [stage |-> "none"]
    /\ chat = ChatRendered([stage |-> "open", clock |-> ChatEpoch,
                            activeTab |-> "interviewee", waiting |-> TRUE,
                            inputValue |-> EmptyText, startTime |-> ChatEpoch,
                            timeLeft |-> ChatQuestion.timeLimit,
                            intervalOn |-> FALSE, phase |-> 0, delivered |-> << >>,
                            committed |-> [mounted |-> FALSE, waiting |-> FALSE,
                                           inputValue |-> EmptyText, startTime |-> 0]])

\* 1 / SubSecond seconds pass while the question is open
ChatAdvance ==
    /\ chat.waiting
    /\ ~RenderPending(chat)
    /\ chat.clock < ChatEpoch + SubSecond * ChatQuestion.timeLimit + MaxOvertime
    /\ chat.intervalOn => chat.phase < SubSecond
    /\ chat' = [chat EXCEPT !.clock = @ + 1,
                            !.phase = IF chat.intervalOn THEN @ + 1 ELSE @]
    /\ UNCHANGED <<machineVars, scoreCase, aggCase>>

\* the callback of setInterval (Timer lines 22-35)
TimerInterval ==
    /\ chat.intervalOn
    /\ chat.phase = SubSecond
    /\ LET newTime == chat.timeLeft - 1
       IN  chat' = IF newTime <= 0
                   THEN handleTimeUp([chat EXCEPT !.timeLeft = 0, !.intervalOn = FALSE,
                                                  !.phase = 0])
                   ELSE [chat EXCEPT !.timeLeft = newTime, !.phase = 0]
    /\ UNCHANGED <<machineVars, scoreCase, aggCase>>

\* the render that follows the state set from the interval callback
ChatRender ==
    /\ RenderPending(chat)
    /\ chat' = ChatRendered(chat)
    /\ UNCHANGED <<machineVars, scoreCase, aggCase>>

\* the form is there while isWaitingForAnswer (line 181)
FormRendered(c) == c.committed.mounted /\ c.committed.waiting

\* onChange of the input (line 192)
ChatKeystroke(key) ==
    /\ FormRendered(chat)
    /\ chat' = ChatRendered([chat EXCEPT !.inputValue = Typed(chat.committed.inputValue, key)])
    /\ UNCHANGED <<machineVars, scoreCase, aggCase>>

\* onSubmit of the form (line 187)
ChatSubmit ==
    /\ FormRendered(chat)
    /\ chat' = ChatRendered(handleSubmit(chat))
    /\ UNCHANGED <<machineVars, scoreCase, aggCase>>

\* setActiveTab (App lines 406, 418, 434-463): ChatInterface is unmounted on
\* the Interviewer tab and mounted anew, with fresh state, on the way back
SetActiveTab(tab) ==
    /\ chat.stage = "open"
    /\ chat.activeTab # tab
    /\ chat' = ChatRendered(
                  [chat EXCEPT !.activeTab = tab,
                               !.inputValue = EmptyText,
                               !.startTime = IF tab = "interviewee" /\ chat.waiting
                                             THEN chat.clock ELSE 0,
                               !.timeLeft = ChatQuestion.timeLimit])
    /\ UNCHANGED <<machineVars, scoreCase, aggCase>>

NextChat ==
    \/ ChatAdvance
    \/ TimerInterval
    \/ ChatRender
    \/ \E key \in Keys : ChatKeystroke(key)
    \/ ChatSubmit
    \/ \E tab \in {"interviewee", "interviewer"} : SetActiveTab(tab)

SpecChat == InitChat /\ [][NextChat]_vars

(***************************************************************************)
(* Properties                                                              *)
(***************************************************************************)
AnswerCount(session) == Cardinality(DOMAIN session.answers)

\* fs (in tenths) is the mean of the overalls of answers, rounded half up
IsRoundedMean(fs, answers) ==
    LET n == Cardinality(DOMAIN answers)
        sum == SumOverall(answers, DOMAIN answers)
    IN  /\ n > 0
        /\ 2 * n * fs - n <= 20 * sum
        /\ 20 * sum < 2 * n * fs + n

\* C1: when Complete has written the candidate of a session in which all 6
\* questions were answered, final_score is the mean, rounded to one decimal,
\* of the overalls of all 6 answers (those of the session state saved by the
\* last Answer), and the status is completed.
C1_FinalScoreIsMeanOfAllSix ==
    ( /\ comp.stage = "respond"
      /\ comp.updateOk
      /\ Len(comp.session.questions) = TotalQuestions
      /\ lsSession.startTime = comp.session.startTime
      /\ AnswerCount(lsSession) = TotalQuestions )
    => /\ candidates[comp.candidate.id].status = "completed"
       /\ IsRoundedMean(candidates[comp.candidate.id].final_score, lsSession.answers)

\* C2: in memory and in local storage, current_question of a session state
\* equals the number of entries of its answers map.
C2_CurrentQuestionCountsAnswers ==
    /\ sessionState # NoSession => sessionState.currentQuestion = AnswerCount(sessionState)
    /\ lsSession # NoSession => lsSession.currentQuestion = AnswerCount(lsSession)

\* an Answer has just been processed: three answers are in memory and saved
C2_Witness ==
    /\ ans = Idle
    /\ sessionState.currentQuestion = 3
    /\ AnswerCount(sessionState) = 3
    /\ lsSession = sessionState
    /\ ~sessionState.isCompleted

\* a and b are states of one session with the 6 questions of the data model
SameSession(a, b) ==
    /\ a # NoSession
    /\ b # NoSession
    /\ a.startTime = b.startTime
    /\ Len(a.questions) = TotalQuestions

NotSmaller(a, b) ==
    SameSession(a, b) =>
        /\ b.currentQuestion >= a.currentQuestion
        /\ AnswerCount(b) >= AnswerCount(a)

\* C3: within one session no step makes current_question or the answers map
\* of the session state smaller, in memory or in local storage.
C3_CurrentQuestionNeverDecreases ==
    [][NotSmaller(sessionState, sessionState') /\ NotSmaller(lsSession, lsSession')]_vars

\* C4: no two Answer Records have the same candidate and question_number.
C4_AtMostOneRecordPerQuestion ==
    \A i, j \in 1..Len(records) :
        ( /\ records[i].candidate_id = records[j].candidate_id
          /\ records[i].question_number = records[j].question_number ) => i = j

\* the scoring call came back without a usable score
ScoringFailed(resp) ==
    \/ resp.kind \in {"nokey", "error", "empty", "unparsable"}
    \/ /\ resp.kind = "json"
       /\ \E f \in {"technical", "clarity", "problem_solving", "overall"} :
             resp.value[f] = Missing

InRange(overall) == MinScore <= overall /\ overall <= MaxScore

LastRecordIsOf(a) ==
    /\ Len(records) = a.recordsBefore + 1
    /\ records[Len(records)].candidate_id = a.candidate.id
    /\ records[Len(records)].question_number = a.idx + 1
    /\ records[Len(records)].ai_score = a.aiScore

\* C5 as stated: once the insert of an Answer whose scoring failed has
\* settled, exactly one record for question_number i+1 has been added, with
\* a fallback overall within 1..10.
C5_ScoringFailureStillOneRecord ==
    (ans.stage = "respond" /\ ScoringFailed(ans.resp)) =>
        LastRecordIsOf(ans) /\ InRange(ans.aiScore.overall)

\* C5 as amended: the score submitted is a fallback score within 1..10; the
\* record is added exactly once when the Persistence Service accepts the
\* insert and not at all when the insert fails.
C5_ScoringFailureOneInsert ==
    (ans.stage = "respond" /\ ScoringFailed(ans.resp)) =>
        /\ InRange(ans.aiScore.overall)
        /\ ans.aiScore = getFallbackScore(ans.answer,
                                          ans.session.questions[ans.idx + 1].difficulty)
        /\ IF ans.insertOk THEN LastRecordIsOf(ans)
                           ELSE Len(records) = ans.recordsBefore

C5_Witness ==
    /\ ans.stage = "respond"
    /\ ans.resp.kind = "error"
    /\ ans.insertOk
    /\ LastRecordIsOf(ans)
    /\ ans.idx = 2

\* C6: every Answer Record has an ai_score.overall within 1..10.
C6_RecordedOverallInRange ==
    \A i \in 1..Len(records) : InRange(records[i].ai_score.overall)

\* the documented table of the fallback scorer
C7_Base(len, kw) ==
    CASE len = 0 -> 1
      [] len \in 1..19 -> 2
      [] len \in 20..49 -> IF kw THEN 4 ELSE 3
      [] len \in 50..99 -> IF kw THEN 6 ELSE 4
      [] len >= 100 -> IF kw THEN 7 ELSE 5

C7_Adjusted(base, difficulty) ==
    CASE difficulty = "Easy" -> IF base + 1 > 10 THEN 10 ELSE base + 1
      [] difficulty = "Hard" -> IF base - 1 < 1 THEN 1 ELSE base - 1
      [] difficulty = "Medium" -> base

FallbackCase ==
    /\ scoreCase.stage = "scored"
    /\ scoreCase.resp.kind # "json"
    /\ scoreCase.record.difficulty \in Difficulties

\* C7: for every difficulty, length bucket (of the trimmed answer) and
\* keyword flag the fallback score is the documented base adjusted for the
\* difficulty, in technical, problem_solving and overall, and
\* max(adjusted - 1, 1) in clarity; an empty answer to a Hard question gives
\* 1 in all four fields.
C7_FallbackScoreTable ==
    FallbackCase =>
        LET len == scoreCase.answer.raw - scoreCase.answer.pad
            adjusted == C7_Adjusted(C7_Base(len, scoreCase.answer.kw),
                                    scoreCase.record.difficulty)
            score == scoreCase.record.ai_score
        IN  /\ score.technical = adjusted
            /\ score.problem_solving = adjusted
            /\ score.overall = adjusted
            /\ score.clarity = (IF adjusted - 1 < 1 THEN 1 ELSE adjusted - 1)
            /\ (len = 0 /\ scoreCase.record.difficulty = "Hard") =>
                  score = [technical |-> 1, clarity |-> 1, problem_solving |-> 1,
                           overall |-> 1]

\* a long answer with a keyword to an Easy question scored by the fallback
C7_Witness ==
    /\ FallbackCase
    /\ scoreCase.record.difficulty = "Easy"
    /\ scoreCase.answer = [raw |-> 132, pad |-> 2, kw |-> TRUE]
    /\ scoreCase.record.ai_score = [technical |-> 8, clarity |-> 7,
                                    problem_solving |-> 8, overall |-> 8]

\* C8: the aggregation yields 0 for the empty map and otherwise the mean of
\* the overalls rounded half up to one decimal; overalls 8, 6, 7, 9, 5, 10
\* give 7.5.
C8_FinalScoreIsRoundedMean ==
    aggCase.stage = "done" =>
        LET n == Len(aggCase.overalls)
            fs == aggCase.finalScore
        IN  /\ n = 0 => fs = 0
            /\ n > 0 => /\ 2 * n * fs - n <= 20 * aggCase.total
                        /\ 20 * aggCase.total < 2 * n * fs + n
            /\ aggCase.overalls = <<8, 6, 7, 9, 5, 10>> => fs = 75

\* four overalls whose mean 6.25 lies half way between two tenths
C8_Witness ==
    /\ aggCase.stage = "done"
    /\ aggCase.overalls = <<8, 6, 5, 6>>
    /\ aggCase.finalScore = 63

\* question generation failed, question 1 of the fallback sequence is
\* answered with "" and the scoring falls back
C9_Scenario ==
    /\ scoreCase.stage = "scored"
    /\ scoreCase.genResp.kind # "json"
    /\ scoreCase.idx = 0
    /\ scoreCase.answer = EmptyText
    /\ scoreCase.resp.kind # "json"

\* C9 as stated: in the scenario the answer is recorded with overall = 1.
C9_EmptyAnswerRecordedWithOne ==
    C9_Scenario => scoreCase.record.ai_score.overall = 1

\* C9 as amended: question 1 is Easy, so the empty answer is recorded with
\* overall = 2 (base 1, plus 1 for Easy).
C9_EmptyAnswerRecordedWithTwo ==
    C9_Scenario =>
        /\ scoreCase.record.difficulty = "Easy"
        /\ scoreCase.record.question_number = 1
        /\ scoreCase.record.ai_score.overall = 2

C9_Witness ==
    /\ C9_Scenario
    /\ scoreCase.genResp.kind = "error"
    /\ scoreCase.resp.kind = "nokey"
    /\ scoreCase.record.ai_score.overall = 2

\* the question sequence of the data model
WellFormedQuestions(questions) ==
    /\ Len(questions) = TotalQuestions
    /\ [i \in 1..Len(questions) |-> questions[i].difficulty]
          = <<"Easy", "Easy", "Medium", "Medium", "Hard", "Hard">>
    /\ [i \in 1..Len(questions) |-> questions[i].timeLimit]
          = <<20, 20, 60, 60, 120, 120>>

\* C10: every session state holds a question sequence of exactly 6 items,
\* Easy, Easy, Medium, Medium, Hard, Hard with 20, 20, 60, 60, 120, 120 seconds.
C10_SessionQuestionsWellFormed ==
    /\ sessionState # NoSession => WellFormedQuestions(sessionState.questions)
    /\ lsSession # NoSession => WellFormedQuestions(lsSession.questions)

\* C11: a Start goes on to generate questions and create the session only
\* when none of its Persistence Service calls (lookup, update, insert) has
\* failed; after a failure it has aborted instead.
C11_StartAbortsOnPersistenceFailure ==
    start.stage = "questions" => start.lookupOk

\* the rows of table t with this email
EmailRows(t, email) == { i \in 1..Len(t) : t[i].email = email }

\* C12: the table never holds two candidates with the same email; and when
\* the Persistence Service calls of a Start have gone through, the candidate
\* of the new session is the one row with the email given: the row that
\* existed before with its id, now with the name and phone given and status
\* in_progress, and then no row has been added.
C12_StartReusesCandidateOfEmail ==
    /\ \A i, j \in 1..Len(candidates) :
          candidates[i].email = candidates[j].email => i = j
    /\ start.stage = "questions" =>
          LET c == start.candidate
              before == EmailRows(start.rowsBefore, start.info.email)
          IN  /\ c.id \in 1..Len(candidates)
              /\ candidates[c.id].id = c.id
              /\ candidates[c.id].email = c.email
              /\ c.email = start.info.email
              /\ c.name = start.info.name
              /\ c.phone = start.info.phone
              /\ c.status = "in_progress"
              /\ before # {} =>
                    /\ c.id \in before
                    /\ start.rowsBefore[c.id].id = c.id
                    /\ EmailRows(candidates, c.email) = before

\* a second Start with the email of an existing candidate, under another
\* name, has updated that candidate
C12_Witness ==
    /\ start.stage = "questions"
    /\ EmailRows(start.rowsBefore, start.info.email) = {1}
    /\ start.rowsBefore[1].name = "Jane"
    /\ start.info.name = "J. Doe"
    /\ candidates[1].name = "J. Doe"
    /\ candidates[1].phone = "555-0102"
    /\ Len(candidates) = 1

\* a step in which the welcome-back modal is answered with Restart
RestartStep ==
    /\ showWelcomeBack
    /\ ~showWelcomeBack'
    /\ currentCandidate' = NoCandidate

\* C13: a Restart step removes the session-state key and the
\* current-candidate key from local storage, whatever they held, leaves no
\* candidate, no session, no messages and no waiting in memory, shows the
\* onboarding form again, and changes no Candidate and no Answer Record.
C13_RestartClearsLocalKeepsServer ==
    [][RestartStep =>
          /\ lsSession' = NoSession
          /\ lsCandidate' = NoCandidate
          /\ currentCandidate' = NoCandidate
          /\ sessionState' = NoSession
          /\ messages' = << >>
          /\ ~isWaitingForAnswer'
          /\ ~showWelcomeBack'
          /\ candidates' = candidates
          /\ records' = records]_vars

\* after two answers of a 6-question interview the page was reloaded and the
\* interview restarted: the records are kept, nothing is left locally
C13_Witness ==
    /\ budget.reloads < MaxReloads
    /\ ~showWelcomeBack
    /\ currentCandidate = NoCandidate
    /\ sessionState = NoSession
    /\ lsSession = NoSession
    /\ lsCandidate = NoCandidate
    /\ messages = << >>
    /\ Len(records) = 2
    /\ records[1].question_text = "fallback1"
    /\ Len(candidates) = 1
    /\ candidates[1].status = "in_progress"

C15_CompletedSessionCleared ==
    (lsSession.isCompleted /\ Len(lsSession.questions) = TotalQuestions)
        ~> (lsSession = NoSession /\ lsCandidate = NoCandidate)

\* the Answer for question i of a 6-question session is being processed
AnswerAccepted(i) ==
    /\ ans # Idle
    /\ ans.idx = i
    /\ Len(ans.session.questions) = TotalQuestions

\* the page was closed and opened again: the mount effect shows the
\* welcome-back modal or the onboarding form
PageReopened == showWelcomeBack \/ currentCandidate = NoCandidate

\* question i+1 is asked, or (after the last question) Complete is running
Advanced(i) ==
    IF i + 1 < TotalQuestions
    THEN isWaitingForAnswer /\ currentQuestionIndex = i + 1
    ELSE comp # Idle

\* C16: once the Answer for question i is accepted, question i+1 is
\* eventually asked (i+1 < 6) or Complete eventually runs (i+1 = 6), whatever
\* the scoring call and the insert come back with, as long as the page stays
\* open.
C16_AnswerAdvances ==
    \A i \in 0..(TotalQuestions - 1) :
        AnswerAccepted(i) ~> (Advanced(i) \/ PageReopened)

\* the insert of the Answer Record of question 3 failed after the scoring
\* had failed, and question 4 is asked
C16_Witness ==
    /\ isWaitingForAnswer
    /\ currentQuestionIndex = 3
    /\ ans = Idle
    /\ Len(sessionState.questions) = TotalQuestions
    /\ AnswerCount(sessionState) = 3
    /\ Len(records) = 2
    /\ budget.faults < MaxFaults
    /\ ~showWelcomeBack

\* C17: a scoring call and a summary call that are waiting for the AI
\* Evaluation Service end after a bounded time even when the request never
\* returns: handleAnswer gets past its scoring step and completeInterview
\* past its summary step.
C17_AICallsBounded ==
    /\ (ans # Idle /\ ans.stage = "scoring") ~> (ans = Idle \/ ans.stage # "scoring")
    /\ (comp # Idle /\ comp.stage = "summary") ~> (comp = Idle \/ comp.stage # "summary")

\* time since the question was asked, in steps
ChatElapsed == chat.clock - ChatEpoch

\* C18: while the question is open no more than time_limit seconds have
\* passed since it was asked, and an Answer delivered by the timer carries
\* the trimmed text typed so far (or "No answer provided") and
\* time_taken = time_limit.
C18_AnswerWithinTimeLimit ==
    chat.stage = "open" =>
        /\ chat.delivered = << >> => ChatElapsed <= SubSecond * ChatQuestion.timeLimit
        /\ \A n \in 1..Len(chat.delivered) :
              LET d == chat.delivered[n]
              IN  /\ d.at - ChatEpoch <= SubSecond * ChatQuestion.timeLimit
                  /\ d.by = "timeUp" =>
                        /\ d.timeTaken = ChatQuestion.timeLimit
                        /\ d.answer = (IF d.typed.raw - d.typed.pad > 0
                                       THEN [raw |-> d.typed.raw - d.typed.pad, pad |-> 0,
                                             kw |-> d.typed.kw]
                                       ELSE Placeholder)

\* C19: every Answer is handed to handleAnswer while the system is waiting,
\* and at most one Answer is handed over for the open question.
C19_OneAnswerWhileWaiting ==
    chat.stage = "open" =>
        /\ Len(chat.delivered) <= 1
        /\ \A n \in 1..Len(chat.delivered) : chat.delivered[n].open

\* the step of Continue on the welcome-back modal
ContinueStep == showWelcomeBack /\ ~showWelcomeBack' /\ currentCandidate' # NoCandidate

\* a pending ask timer for an existing question fires
AskStep(t) ==
    /\ t \in timers /\ t \notin timers'
    /\ t.kind = "ask" /\ t.idx < Len(t.questions)
    /\ Len(messages') = Len(messages) + 1

\* C20: Resume of the session stored after k answers, k below the number of
\* questions, restores that session unchanged with current_question = k,
\* replays the k question/answer pairs in ascending question order after the
\* welcome-back message, and leaves question k to be asked; when the pending
\* question is asked, it is question k and the system waits for its answer.
C20_ResumeReplaysInOrder ==
    [][ /\ ContinueStep /\ AnswerCount(lsSession) < Len(lsSession.questions) =>
           LET k == AnswerCount(lsSession)
           IN  /\ sessionState' = lsSession
               /\ lsSession' = lsSession
               /\ lsSession.currentQuestion = k
               /\ DOMAIN lsSession.answers = 0..(k - 1)
               /\ currentQuestionIndex' = k
               /\ Len(messages') = 1 + 2 * k
               /\ messages'[1].kind = "welcomeBack"
               /\ \A j \in 0..(k - 1) :
                     /\ messages'[2 + 2 * j].type = "bot"
                     /\ messages'[2 + 2 * j].q = lsSession.questions[j + 1].question
                     /\ messages'[2 + 2 * j].n = j
                     /\ messages'[3 + 2 * j].type = "user"
                     /\ messages'[3 + 2 * j].a = lsSession.answers[j].answer
                     /\ messages'[3 + 2 * j].n = j
               /\ \E t \in timers' : /\ t.kind = "ask" /\ t.idx = k
                                     /\ t.questions = lsSession.questions
        /\ \A t \in timers : AskStep(t) =>
              /\ currentQuestionIndex' = t.idx
              /\ isWaitingForAnswer'
              /\ messages'[Len(messages')].kind = "question"
              /\ messages'[Len(messages')].q = t.questions[t.idx + 1].question
      ]_vars

\* resumed after five answers: the five pairs are replayed and question 5 asked
C20_Witness ==
    /\ budget.reloads < MaxReloads
    /\ ~showWelcomeBack
    /\ isWaitingForAnswer
    /\ currentQuestionIndex = TotalQuestions - 1
    /\ Len(messages) = 2 * TotalQuestions
    /\ messages[1].kind = "welcomeBack"
    /\ messages[2].n = 0
    /\ messages[2 * TotalQuestions - 2].n = TotalQuestions - 2
    /\ messages[2 * TotalQuestions].kind = "question"
    /\ sessionState = lsSession
    /\ AnswerCount(sessionState) = TotalQuestions - 1

\* completeInterview resumes after a candidate update that failed
CompleteAfterFailedUpdate ==
    /\ comp # Idle /\ comp.stage = "respond" /\ ~comp.updateOk
    /\ comp' = Idle
    /\ Len(messages') = Len(messages) + 1

\* C21: when the candidate update of Complete fails, the message shown is the
\* generic completion message, which carries no score, and the local session
\* stays completed.
C21_FailedUpdateShowsGenericMessage ==
    [][ CompleteAfterFailedUpdate =>
           /\ messages'[Len(messages')].kind = "completedGeneric"
           /\ messages'[Len(messages')].n = 0
           /\ sessionState'.isCompleted
           /\ lsSession'.isCompleted
      ]_vars

\* C23: the Answer Records of one candidate appear in the table in
\* non-decreasing order of question_number.
C23_RecordsInQuestionOrder ==
    \A i \in 1..Len(records) : \A j \in 1..Len(records) :
        (i < j /\ records[i].candidate_id = records[j].candidate_id)
            => records[i].question_number <= records[j].question_number

\* the band a final score (in tenths) falls into
BandOfFinalScore(fs) ==
    IF fs >= 70 THEN "strong" ELSE IF fs >= 50 THEN "moderate" ELSE "weak"

\* C24: for an answers map of 1 to TotalQuestions integer overalls of
\* MinScore..MaxScore, the band of the fallback summary is the band of the
\* final score computed from the same answers.
C24_SummaryBandMatchesFinalScore ==
    (aggCase.stage = "done" /\ Len(aggCase.overalls) >= 1) =>
        aggCase.summary = BandOfFinalScore(aggCase.finalScore)

\* six overalls with mean 6.83: final score 6.8, one sixth below the limit
C24_Witness ==
    /\ aggCase.stage = "done"
    /\ aggCase.overalls = <<7, 7, 7, 7, 7, 6>>
    /\ aggCase.finalScore = 68
    /\ aggCase.summary = "moderate"

\* the timer set by Start fires for an empty question sequence
StartAskOfEmpty ==
    /\ \E t \in timers : t.kind = "startAsk" /\ t.questions = << >> /\ t \notin timers'
    /\ currentCandidate' # NoCandidate
    /\ ~showWelcomeBack'

\* C25: when Start has obtained an empty question sequence, Ask(0) starts
\* Complete, with a final score of 0.
C25_EmptySequenceCompletes ==
    [][ StartAskOfEmpty => (comp' # Idle /\ comp'.stage = "summary" /\ comp'.finalScore = 0)
      ]_vars

\* C26: a Resume of a session of TotalQuestions questions puts it on its way
\* to Complete: after the Continue step Complete has started, or an Ask or a
\* Complete is pending; this includes a session stored with
\* current_question = TotalQuestions.
C26_ResumedSessionHeadsForComplete ==
    [][ (ContinueStep /\ Len(lsSession.questions) = TotalQuestions) =>
           \/ comp' # Idle
           \/ \E t \in timers' : t.kind \in {"ask", "complete"}
      ]_vars

\* handleAnswer rewrites the transcript after the scoring (lines 205-209)
ScoreShown ==
    /\ ans # Idle /\ ans.stage = "respond"
    /\ ans' = Idle
    /\ Len(messages') = Len(messages)

\* C28: when the score of an answer is shown, the 'evaluating' message is
\* rewritten with it and every user message keeps its text, whether or not
\* the two messages of the answer were created in the same millisecond.
C28_OnlyEvaluatingMessageRewritten ==
    [][ ScoreShown =>
           \A i \in 1..Len(messages) :
               IF messages[i].kind = "evaluating"
               THEN messages'[i].kind = "scored" /\ messages'[i].n = ans.aiScore.overall
               ELSE messages'[i] = messages[i]
      ]_vars

\* C30: no answer handed to handleAnswer is empty after trimming, so the
\* length-0 branch of the fallback scorer is not taken; the placeholder of a
\* question that timed out with nothing typed gets the fallback overall 3
\* (Easy), 2 (Medium) or 1 (Hard).
C30_TimeoutPlaceholderScored ==
    ans # Idle =>
        /\ Length(Trim(ans.answer)) # 0
        /\ ( /\ ans.stage \in {"insert", "respond"}
             /\ ans.answer = Placeholder
             /\ ans.resp.kind # "json" ) =>
              LET difficulty == ans.session.questions[ans.idx + 1].difficulty
              IN  ans.aiScore.overall = (IF difficulty = "Easy" THEN 3
                                         ELSE IF difficulty = "Medium" THEN 2 ELSE 1)

\* a Hard question timed out with nothing typed and the scoring fell back
C30_Witness ==
    /\ ans # Idle
    /\ ans.stage = "insert"
    /\ ans.answer = Placeholder
    /\ ans.resp.kind = "error"
    /\ ans.session.questions[ans.idx + 1].difficulty = "Hard"
    /\ ans.aiScore.overall = 1
    /\ Len(ans.session.questions) = TotalQuestions

\* a step of the Start call that was reported as timed out
LateStartStep ==
    /\ lateStart # Idle
    /\ lateStart' # lateStart
    /\ budget'.reloads = budget.reloads

\* C27: a Start reported as timed out changes nothing afterwards (no
\* candidate row, no stored or current candidate and session, no transcript,
\* no timer for question 0), and no second Start is in flight beside it.
C27_TimedOutStartHasNoEffect ==
    [][ /\ LateStartStep =>
              UNCHANGED <<candidates, records, lsSession, lsCandidate, currentCandidate,
                          sessionState, messages, currentQuestionIndex, timers>>
        /\ (start' = Idle \/ lateStart' = Idle)
      ]_vars

\* two session states of one interview: same candidate, same Start
OfOneStart(s, t) ==
    /\ s.candidateId = t.candidateId
    /\ s.startTime = t.startTime
    /\ s.questions = t.questions

\* a session state as Start creates it
FreshSession(s) == s.answers = << >> /\ s.currentQuestion = 0 /\ ~s.isCompleted

\* C22: the session state in memory and the stored one, when neither is
\* completed, are states of one session; and whenever the stored session
\* state is written, it is a fresh one (Start) or a later state of the
\* session stored before, whose answers are those stored before and the
\* one just given.
C22_OneSessionReplacedNeverMerged ==
    [][ /\ ( /\ sessionState' # NoSession /\ ~sessionState'.isCompleted
             /\ lsSession' # NoSession /\ ~lsSession'.isCompleted )
           => OfOneStart(sessionState', lsSession')
        /\ (lsSession' # lsSession /\ lsSession' # NoSession) =>
              \/ FreshSession(lsSession')
              \/ /\ OfOneStart(lsSession', lsSession)
                 /\ \A k \in DOMAIN lsSession'.answers :
                       \/ /\ k \in DOMAIN lsSession.answers
                          /\ lsSession'.answers[k] = lsSession.answers[k]
                       \/ /\ ans # Idle /\ k = ans.idx
                          /\ lsSession'.answers[k].answer = ans.answer
      ]_vars

====
